---- MODULE Spec2Model ----
(***************************************************************************)
(* MCP server tester: the orchestration loop of src/src/index.ts, the       *)
(* MCPClient connection variants, the TestGenerator reply parser and the    *)
(* ResponseValidator rule engine.                                           *)
(*                                                                          *)
(* JavaScript values are tagged records.  Strings the code operates on      *)
(* (dotted paths, rule values, object keys, response text) are sequences    *)
(* of one-character strings; strings that are only passed along (messages,  *)
(* tool names, descriptions) are plain strings.  Objects are sequences of   *)
(* <<key, value>> pairs in insertion order.                                 *)
(***************************************************************************)
EXTENDS Integers, Sequences, FiniteSets, TLC

VARIABLES
    variant,      \* which MCPClient snapshot the run is linked against
    srv,          \* index of the server of the current for-iteration
    opc,          \* position of runTests
    client,       \* fields of the MCPClient instance of this iteration
    clientRef,    \* runTests' local `client`: TRUE while it references the instance
    cpc,          \* position of the connect() call of this iteration
    tools,        \* `tools` local of runTests
    toolIdx,      \* position of generateTests' loop over tools
    testCases,    \* `testCases` local of runTests
    results,      \* `results` local of runTests
    testIdx,      \* position of the for-loop over testCases
    abandoned,    \* test indexes whose executeTool lost its race and has not settled
    pending,      \* an exception is propagating through the inner finally
    disc,         \* number of disconnect() invocations on this iteration's client
    campaign,     \* how this iteration's campaign went
    reported,     \* generateReport was called in this iteration
    reportFile,   \* servers whose results the file at config.outputPath holds
    last,         \* the last call a direct caller made on the MCPClient instance
    probe         \* the last direct call of a stateless operation: its inputs and output

vars == <<variant, srv, opc, client, clientRef, cpc, tools, toolIdx, testCases,
          results, testIdx, abandoned, pending, disc, campaign, reported, reportFile,
          last, probe>>

\* the variables of runTests, which a direct caller of MCPClient leaves alone
orchVars == <<srv, opc, clientRef, cpc, tools, toolIdx, testCases, results, testIdx,
              abandoned, pending, disc, campaign, reported, reportFile>>

(***************************************************************************)
(* Bounds                                                                   *)
(***************************************************************************)
NumServers == 2
MaxTools == 2
MaxReplyLen == 2
\* cap on the number of test cases generated for one server
MaxCases == 2
\* number of calls a direct caller makes on one MCPClient instance
MaxCalls == 4
\* length of the rule lists handed to the validator
MaxRules == 2
\* units asked of the per-tool generator
MaxUnits == 3

(***************************************************************************)
(* JavaScript values                                                        *)
(***************************************************************************)
Undef == [t |-> "undefined"]
Null == [t |-> "null"]
Bool(b) == [t |-> "boolean", v |-> b]
Num(n) == [t |-> "number", v |-> n]
Str(s) == [t |-> "string", v |-> s]
Arr(xs) == [t |-> "array", v |-> xs]
Obj(kvs) == [t |-> "object", v |-> kvs]
\* a function object, such as the methods every object inherits
Fn == [t |-> "function"]

\* typeof v
TypeOf(v) ==
    IF v.t \in {"null", "array", "object"} THEN "object" ELSE v.t

\* !v
Falsy(v) ==
    \/ v.t \in {"undefined", "null"}
    \/ v.t = "boolean" /\ ~v.v
    \/ v.t = "number" /\ v.v = 0
    \/ v.t = "string" /\ v.v = <<>>

Digits == <<"0", "1", "2", "3", "4", "5", "6", "7", "8", "9">>

\* the decimal digits of a number 0..99, as String(n) writes them
NumToChars(n) ==
    IF n < 10 THEN <<Digits[n + 1]>> ELSE <<Digits[(n \div 10) + 1], Digits[(n % 10) + 1]>>

\* key is the canonical index string of an element of an array of length n
IsIndexOf(key, n) ==
    \E i \in 0..(n - 1) : key = NumToChars(i)

IndexOf(key, n) ==
    CHOOSE i \in 0..(n - 1) : key = NumToChars(i)

sLength == <<"l", "e", "n", "g", "t", "h">>
sConstructor == <<"c", "o", "n", "s", "t", "r", "u", "c", "t", "o", "r">>
sToString == <<"t", "o", "S", "t", "r", "i", "n", "g">>

\* names every object and array inherits from its prototype (two of them)
ProtoKeys == {sConstructor, sToString}

\* the object or array has `key` as a property of its own
HasOwnKey(cur, key) ==
    CASE cur.t = "object" -> \E i \in 1..Len(cur.v) : cur.v[i][1] = key
      [] cur.t = "array" -> IsIndexOf(key, Len(cur.v)) \/ key = sLength
      [] OTHER -> FALSE

\* part in current, for current an object or an array: own and inherited names
HasKey(cur, key) ==
    cur.t \in {"object", "array"} /\ (HasOwnKey(cur, key) \/ key \in ProtoKeys)

\* current[part], for current of typeof 'object' and not null
GetProp(cur, key) ==
    CASE cur.t = "object" ->
            IF HasOwnKey(cur, key)
            THEN cur.v[CHOOSE i \in 1..Len(cur.v) : cur.v[i][1] = key][2]
            ELSE IF key \in ProtoKeys THEN Fn
            ELSE Undef
      [] cur.t = "array" ->
            IF IsIndexOf(key, Len(cur.v)) THEN cur.v[IndexOf(key, Len(cur.v)) + 1]
            ELSE IF key = sLength THEN Num(Len(cur.v))
            ELSE IF key \in ProtoKeys THEN Fn
            ELSE Undef
      [] OTHER -> Undef

\* String.prototype.includes
IsSubstring(sub, s) ==
    \E i \in 0..(Len(s) - Len(sub)) : SubSeq(s, i + 1, i + Len(sub)) = sub

\* String.prototype.split('.')
RECURSIVE SplitDots(_)
SplitDots(s) ==
    IF \A i \in 1..Len(s) : s[i] # "."
    THEN <<s>>
    ELSE LET i == CHOOSE j \in 1..Len(s) :
                      s[j] = "." /\ \A k \in 1..(j - 1) : s[k] # "."
         IN <<SubSeq(s, 1, i - 1)>> \o SplitDots(SubSeq(s, i + 1, Len(s)))

\* Concatenation of a sequence of character sequences with a separator
RECURSIVE JoinWith(_, _)
JoinWith(parts, sep) ==
    IF parts = <<>> THEN <<>>
    ELSE IF Len(parts) = 1 THEN parts[1]
    ELSE parts[1] \o sep \o JoinWith(Tail(parts), sep)

\* JSON.stringify(v): the text as a character sequence, or Undef for undefined
RECURSIVE JsonStringify(_)
JsonStringify(v) ==
    CASE v.t \in {"undefined", "function"} -> Undef
      [] v.t = "null" -> Str(<<"n", "u", "l", "l">>)
      [] v.t = "boolean" ->
            Str(IF v.v THEN <<"t", "r", "u", "e">> ELSE <<"f", "a", "l", "s", "e">>)
      [] v.t = "number" -> Str(NumToChars(v.v))
      [] v.t = "string" -> Str(<<"\"">> \o v.v \o <<"\"">>)
      [] v.t = "array" ->
            Str(<<"[">>
                \o JoinWith([i \in 1..Len(v.v) |->
                                IF v.v[i].t = "undefined" THEN <<"n", "u", "l", "l">>
                                ELSE JsonStringify(v.v[i]).v], <<",">>)
                \o <<"]">>)
      [] v.t = "object" ->
            LET kept == SelectSeq(v.v, LAMBDA kv : kv[2].t # "undefined")
            IN Str(<<"{">>
                   \o JoinWith([i \in 1..Len(kept) |->
                                   <<"\"">> \o kept[i][1] \o <<"\"", ":">>
                                   \o JsonStringify(kept[i][2]).v], <<",">>)
                   \o <<"}">>)

(***************************************************************************)
(* Regular expressions: the subset of literal characters with an optional   *)
(* leading ^ and trailing $; a pattern holding "(" stands for a pattern     *)
(* that new RegExp rejects.                                                 *)
(***************************************************************************)
RegexValid(re) ==
    \A i \in 1..Len(re) : re[i] # "("

RegexTest(re, s) ==
    LET atStart == Len(re) >= 1 /\ re[1] = "^"
        r1 == IF atStart THEN Tail(re) ELSE re
        atEnd == Len(r1) >= 1 /\ r1[Len(r1)] = "$"
        core == IF atEnd THEN SubSeq(r1, 1, Len(r1) - 1) ELSE r1
    IN CASE atStart /\ atEnd -> s = core
         [] atStart -> Len(core) <= Len(s) /\ SubSeq(s, 1, Len(core)) = core
         [] atEnd -> Len(core) <= Len(s)
                     /\ SubSeq(s, Len(s) - Len(core) + 1, Len(s)) = core
         [] OTHER -> IsSubstring(core, s)

(***************************************************************************)
(* ResponseValidator                                                        *)
(***************************************************************************)
\* !path, !target
NoPath(path) ==
    path.t = "undefined" \/ (path.t = "string" /\ path.v = <<>>)

RECURSIVE WalkPath(_, _)
WalkPath(cur, parts) ==
    IF parts = <<>> THEN cur
    ELSE IF cur.t \in {"null", "undefined"} THEN Undef
    ELSE IF TypeOf(cur) # "object" THEN Undef
    ELSE WalkPath(GetProp(cur, Head(parts)), Tail(parts))

getValueByPath(data, path) ==
    IF NoPath(path) THEN data ELSE WalkPath(data, SplitDots(path.v))

\* Array.prototype.includes: SameValueZero, so an object or array element is
\* never equal to a value that came from elsewhere
ArrayIncludes(xs, value) ==
    /\ value.t \notin {"array", "object"}
    /\ \E i \in 1..Len(xs) : xs[i] = value

\* validateContains without the Array.isArray branch
validateContainsStringsOnly(data, target, value) ==
    LET targetValue == getValueByPath(data, target)
    IN IF TypeOf(targetValue) = "string" /\ TypeOf(value) = "string"
       THEN IsSubstring(value.v, targetValue.v)
       ELSE FALSE

validateContains(data, target, value) ==
    LET targetValue == getValueByPath(data, target)
    IN IF TypeOf(targetValue) = "string" /\ TypeOf(value) = "string"
       THEN IsSubstring(value.v, targetValue.v)
       ELSE IF targetValue.t = "array"
       THEN ArrayIncludes(targetValue.v, value)
       ELSE FALSE

\* "pass", "fail", or "throw" when new RegExp throws
validateMatches(data, target, value) ==
    LET targetValue == getValueByPath(data, target)
        Verdict(b) == IF b THEN "pass" ELSE "fail"
    IN IF TypeOf(targetValue) = "string" /\ TypeOf(value) = "string"
       THEN IF Len(value.v) >= 1 /\ value.v[1] = "/" /\ value.v[Len(value.v)] = "/"
            THEN LET regexStr == SubSeq(value.v, 2, Len(value.v) - 1)
                 IN IF RegexValid(regexStr)
                    THEN Verdict(RegexTest(regexStr, targetValue.v))
                    ELSE "throw"
            ELSE Verdict(targetValue = value)
       ELSE Verdict(JsonStringify(targetValue) = JsonStringify(value))

RECURSIVE WalkHas(_, _)
WalkHas(cur, parts) ==
    IF parts = <<>> THEN TRUE
    ELSE IF cur.t \in {"null", "undefined"} THEN FALSE
    ELSE IF TypeOf(cur) # "object" THEN FALSE
    ELSE IF ~HasKey(cur, Head(parts)) THEN FALSE
    ELSE WalkHas(GetProp(cur, Head(parts)), Tail(parts))

validateHasProperty(data, target) ==
    IF NoPath(target) THEN FALSE ELSE WalkHas(data, SplitDots(target.v))

\* A caller-supplied predicate, by its behaviour on the data it is given
ApplyPredicate(p, data) ==
    CASE p = "truthy" -> IF Falsy(data) THEN "false" ELSE "true"
      [] p = "never" -> "false"
      [] p = "always" -> "true"
      [] OTHER -> "throw"

\* One iteration of the switch in validateRules: "pass", "fail", "throw" or "unknown"
RuleOutcome(data, rule) ==
    CASE rule.type = "contains" ->
            IF validateContains(data, rule.target, rule.value) THEN "pass" ELSE "fail"
      [] rule.type = "matches" -> validateMatches(data, rule.target, rule.value)
      [] rule.type = "hasProperty" ->
            IF validateHasProperty(data, rule.target) THEN "pass" ELSE "fail"
      [] rule.type = "custom" ->
            IF "custom" \in DOMAIN rule
            THEN LET r == ApplyPredicate(rule.custom, data)
                 IN IF r = "throw" THEN "throw" ELSE IF r = "false" THEN "fail" ELSE "pass"
            ELSE "pass"
      [] OTHER -> "unknown"

\* validateRules returning at the first rule that fails
RECURSIVE validateRulesShortCircuit(_, _)
validateRulesShortCircuit(data, rules) ==
    IF rules = <<>> THEN [thrown |-> FALSE, errors |-> <<>>]
    ELSE LET o == RuleOutcome(data, Head(rules))
             msg == IF o = "unknown" THEN "Unknown rule type: " \o Head(rules).type
                    ELSE Head(rules).message
         IN IF o = "throw" THEN [thrown |-> TRUE, errors |-> <<>>]
            ELSE IF o = "pass" THEN validateRulesShortCircuit(data, Tail(rules))
            ELSE [thrown |-> FALSE, errors |-> <<msg>>]

\* [thrown |-> TRUE] when an iteration throws, else the accumulated messages
RECURSIVE validateRules(_, _)
validateRules(data, rules) ==
    IF rules = <<>> THEN [thrown |-> FALSE, errors |-> <<>>]
    ELSE LET o == RuleOutcome(data, Head(rules))
             rest == validateRules(data, Tail(rules))
             msg == IF o = "unknown" THEN "Unknown rule type: " \o Head(rules).type
                    ELSE Head(rules).message
         IN IF o = "throw" \/ rest.thrown THEN [thrown |-> TRUE, errors |-> <<>>]
            ELSE IF o = "pass" THEN rest
            ELSE [thrown |-> FALSE, errors |-> <<msg>> \o rest.errors]

\* testCase.validationRules && testCase.validationRules.length > 0
HasTopLevelRules(testCase) ==
    "validationRules" \in DOMAIN testCase /\ Len(testCase.validationRules) > 0

\* response.error?.message || 'Unknown error'
ErrorMessageOf(response) ==
    IF "error" \in DOMAIN response /\ response.error # "" THEN response.error
    ELSE "Unknown error"

\* validateResponse without the return after the status check: the rules are
\* evaluated against the (absent) data of an error response as well
validateResponseNoEarlyReturn(response, testCase) ==
    LET data == IF "data" \in DOMAIN response THEN response.data ELSE Undef
        first == IF response.status = "error"
                 THEN <<"Tool execution failed: " \o ErrorMessageOf(response)>>
                 ELSE <<>>
    IN IF HasTopLevelRules(testCase)
       THEN LET r == validateRules(data, testCase.validationRules)
            IN IF r.thrown THEN [thrown |-> TRUE, valid |-> FALSE, errors |-> <<>>]
               ELSE [thrown |-> FALSE, valid |-> first \o r.errors = <<>>,
                     errors |-> first \o r.errors]
       ELSE IF Falsy(data)
       THEN [thrown |-> FALSE, valid |-> FALSE,
             errors |-> first \o <<"No data in response">>]
       ELSE [thrown |-> FALSE, valid |-> first = <<>>, errors |-> first]

validateResponse(response, testCase) ==
    IF response.status = "error"
    THEN [thrown |-> FALSE, valid |-> FALSE,
          errors |-> <<"Tool execution failed: " \o ErrorMessageOf(response)>>]
    ELSE IF HasTopLevelRules(testCase)
    THEN LET r == validateRules(response.data, testCase.validationRules)
         IN IF r.thrown THEN [thrown |-> TRUE, valid |-> FALSE, errors |-> <<>>]
            ELSE [thrown |-> FALSE, valid |-> r.errors = <<>>, errors |-> r.errors]
    ELSE IF Falsy(response.data)
    THEN [thrown |-> FALSE, valid |-> FALSE, errors |-> <<"No data in response">>]
    ELSE [thrown |-> FALSE, valid |-> TRUE, errors |-> <<>>]

\* validateResponse that takes the rules off the test case as it applies them
validateResponseConsumesRules(response, testCase) ==
    [response |-> response,
     testCase |-> [testCase EXCEPT !.validationRules = <<>>]]

\* what validateResponse leaves in the two objects it was handed: it assigns
\* to locals only (errors, validationErrors), never to response, testCase or
\* a rule, and the validator has no field
validateResponseEffect(response, testCase) ==
    [response |-> response, testCase |-> testCase]

(***************************************************************************)
(* TestGenerator (src/src/test-generator): the model's reply for one tool   *)
(* is fenced or not, carries commentary around the JSON or not, and its     *)
(* JSON text is well formed (and denotes `body`) or not.                    *)
(***************************************************************************)
sResult == <<"r", "e", "s", "u", "l", "t">>
sOk == <<"o", "k">>
sNo == <<"n", "o">>

RuleContainsOk ==
    [type |-> "contains", target |-> Str(sResult), value |-> Str(sOk),
     message |-> "result should contain ok"]

\* Entries of the JSON array the model is asked for
EntryRules ==
    [description |-> "checks result",
     expectedOutcome |-> [status |-> "success", validationRules |-> <<RuleContainsOk>>]]

EntryError ==
    [description |-> "expects error", expectedOutcome |-> [status |-> "error"]]

EntryNoOutcome ==
    [description |-> "no outcome"]

GoodEntries == {EntryRules, EntryError}

RECURSIVE SeqsUpTo(_, _)
SeqsUpTo(S, n) ==
    IF n = 0 THEN {<<>>}
    ELSE LET shorter == SeqsUpTo(S, n - 1)
         IN shorter \cup {Append(q, e) : q \in {r \in shorter : Len(r) = n - 1}, e \in S}

Replies ==
    {[fenced |-> TRUE, commentary |-> TRUE, wellFormed |-> TRUE, body |-> b] :
        b \in SeqsUpTo(GoodEntries, MaxReplyLen)}
    \cup {[fenced |-> FALSE, commentary |-> FALSE, wellFormed |-> TRUE, body |-> <<EntryRules>>],
          [fenced |-> FALSE, commentary |-> TRUE, wellFormed |-> TRUE, body |-> <<EntryRules>>],
          [fenced |-> TRUE, commentary |-> FALSE, wellFormed |-> FALSE, body |-> <<>>],
          [fenced |-> TRUE, commentary |-> FALSE, wellFormed |-> TRUE, body |-> <<EntryNoOutcome>>]}

\* JSON.parse(jsonContent) succeeds: the fence regex isolates the JSON, or the
\* whole reply is the JSON
JsonParses(reply) ==
    /\ reply.wellFormed
    /\ reply.fenced \/ ~reply.commentary

\* test.expectedOutcome.validationRules || []
RulesOrEmpty(outcome) ==
    IF "validationRules" \in DOMAIN outcome THEN outcome.validationRules ELSE <<>>

MapEntry(test, toolName) ==
    [toolName |-> toolName,
     description |-> test.description,
     expectedOutcome |-> [status |-> test.expectedOutcome.status,
                          validationRules |-> RulesOrEmpty(test.expectedOutcome)]]

parseResponse(reply, toolName) ==
    IF ~JsonParses(reply) THEN <<>>
    ELSE IF \E i \in 1..Len(reply.body) : "expectedOutcome" \notin DOMAIN reply.body[i]
    THEN <<>>
    ELSE [i \in 1..Len(reply.body) |-> MapEntry(reply.body[i], toolName)]

\* GenerateForTool whose catch block empties the list built so far
GenerateForToolDiscardsOnThrow(allTests, toolName, callThrows, reply) ==
    IF callThrows THEN <<>>
    ELSE allTests \o parseResponse(reply, toolName)

\* GenerateForTool that puts the new test cases in front (unshift)
GenerateForToolPrepends(allTests, toolName, callThrows, reply) ==
    IF callThrows THEN allTests
    ELSE parseResponse(reply, toolName) \o allTests

\* One iteration of the loop of generateTests: the completion call throws
\* or returns a reply
GenerateForTool(allTests, toolName, callThrows, reply) ==
    IF callThrows THEN allTests
    ELSE allTests \o parseResponse(reply, toolName)

\* the for-loop of generateTests over the tools; outcomes[i] is how the
\* completion call for the i-th tool settles
RECURSIVE generateTestsFrom(_, _, _)
generateTestsFrom(allTests, toolsLeft, outcomes) ==
    IF toolsLeft = <<>> THEN allTests
    ELSE generateTestsFrom(
            GenerateForTool(allTests, Head(toolsLeft), Head(outcomes).callThrows,
                            Head(outcomes).reply),
            Tail(toolsLeft), Tail(outcomes))

\* TestGenerator.generateTests(tools, config): config.numTestsPerTool goes
\* into the prompt only
generateTests(toolList, numTestsPerTool, outcomes) ==
    generateTestsFrom(<<>>, toolList, outcomes)

(***************************************************************************)
(* TestGenerator (src/src/generator): one tool, numTests units of three     *)
(* model calls each.  units[i] tells which call of the i-th unit fails, if  *)
(* any; uuids is the number of identifiers uuidv4 has handed out so far.    *)
(***************************************************************************)
UnitOutcomes == {"ok", "queryFails", "inputsFail", "rulesFail"}

\* generateSingleTest: any failing call is rethrown as "Failed to generate
\* test case"
generateSingleTest(toolName, testNumber, unit, uuid) ==
    IF unit # "ok" THEN [thrown |-> TRUE]
    ELSE [thrown |-> FALSE,
          testCase |-> [id |-> uuid, toolName |-> toolName,
                        description |-> <<"Test", testNumber>>]]

RECURSIVE generateTestsLoop(_, _, _, _, _, _)
generateTestsLoop(toolName, numTests, units, uuids, i, made) ==
    IF i > numTests THEN [thrown |-> FALSE, testCases |-> made]
    ELSE LET r == generateSingleTest(toolName, i, units[i], uuids + i)
         IN IF r.thrown THEN [thrown |-> TRUE, testCases |-> <<>>]
            ELSE generateTestsLoop(toolName, numTests, units, uuids, i + 1,
                                   Append(made, r.testCase))

\* TestGenerator.generateTests(tool, numTests) of src/src/generator
generateTestsForTool(toolName, numTests, units, uuids) ==
    generateTestsLoop(toolName, numTests, units, uuids, 1, <<>>)

(***************************************************************************)
(* ApiTester.generateTestCases (src/src/api-tester): the reply has a text   *)
(* block or not, the text holds a [...] span or not, the span is well       *)
(* formed JSON (and denotes `body`) or not.                                 *)
(***************************************************************************)
ApiEntryFull ==
    [input |-> [path |-> [owner |-> "facebook", repo |-> "react"]],
     expectedOutput |-> [statusCode |-> 200]]

ApiEntryNoRepo ==
    [input |-> [path |-> [owner |-> "facebook"]],
     expectedOutput |-> [statusCode |-> 200]]

ApiEntryNoPath ==
    [input |-> [query |-> "open"], expectedOutput |-> [statusCode |-> 404]]

ApiEntryNoInput ==
    [expectedOutput |-> [statusCode |-> 200]]

ApiEntries == {ApiEntryFull, ApiEntryNoRepo, ApiEntryNoPath, ApiEntryNoInput}

ApiReplies ==
    {[hasText |-> TRUE, hasArray |-> TRUE, wellFormed |-> TRUE, body |-> b] :
        b \in SeqsUpTo(ApiEntries, MaxReplyLen)}
    \cup {[hasText |-> FALSE, hasArray |-> FALSE, wellFormed |-> FALSE, body |-> <<>>],
          [hasText |-> TRUE, hasArray |-> FALSE, wellFormed |-> FALSE, body |-> <<>>],
          [hasText |-> TRUE, hasArray |-> TRUE, wellFormed |-> FALSE, body |-> <<>>]}

\* the test case the catch block returns
DefaultApiTestCase ==
    [input |-> [query |-> "", path |-> [owner |-> "microsoft", repo |-> "vscode"],
                body |-> ""],
     expectedOutput |-> [statusCode |-> 200]]

\* the callback of testCases.map: path, owner and repo get defaults
WithDefaultPath(testCase) ==
    LET path == IF "path" \in DOMAIN testCase.input THEN testCase.input.path
                ELSE [owner |-> "microsoft", repo |-> "vscode"]
        owner == IF "owner" \in DOMAIN path THEN path.owner ELSE "microsoft"
        repo == IF "repo" \in DOMAIN path THEN path.repo ELSE "vscode"
    IN [input |-> [path |-> [owner |-> owner, repo |-> repo]],
        expectedOutput |-> testCase.expectedOutput]

\* generateTestCases(endpoint): messages.create is outside the try block
generateTestCases(callThrows, reply) ==
    IF callThrows THEN [thrown |-> TRUE, testCases |-> <<>>]
    ELSE IF \/ ~reply.hasText
            \/ ~reply.hasArray
            \/ ~reply.wellFormed
            \/ \E i \in 1..Len(reply.body) : "input" \notin DOMAIN reply.body[i]
    THEN [thrown |-> FALSE, testCases |-> <<DefaultApiTestCase>>]
    ELSE [thrown |-> FALSE,
          testCases |-> [i \in 1..Len(reply.body) |-> WithDefaultPath(reply.body[i])]]

(***************************************************************************)
(* MCPClient.  One record holds the fields of the three snapshots:          *)
(*   "sdk"   src/src/client/MCPClient.ts  (session, server, serverProcess,  *)
(*           tools)                                                         *)
(*   "cfg"   the ConfigLoader-based client (client, serverProcess, socket)  *)
(*   "stdio" the StdioClientTransport client (client, serverProcess)        *)
(* procAlive and sockOpen are the operating-system resources behind the     *)
(* serverProcess and socket references.                                     *)
(***************************************************************************)
FreshClient ==
    [session |-> FALSE, server |-> FALSE, client |-> FALSE, serverProcess |-> FALSE,
     socket |-> FALSE, tools |-> <<>>, procAlive |-> FALSE, sockOpen |-> FALSE]

\* this.serverProcess.kill(); this.serverProcess = null
KillProcess(c) ==
    IF c.serverProcess THEN [c EXCEPT !.serverProcess = FALSE, !.procAlive = FALSE] ELSE c

\* --- disconnect, "sdk": runs to its next await ("closeSession", "closeServer")
\* --- or to its end ("done")
SdkDiscTail(c) ==
    [c |-> [KillProcess(c) EXCEPT !.tools = <<>>], phase |-> "done"]

SdkDiscServer(c) ==
    IF c.server THEN [c |-> c, phase |-> "closeServer"] ELSE SdkDiscTail(c)

SdkDiscEnter(c) ==
    IF c.session THEN [c |-> c, phase |-> "closeSession"] ELSE SdkDiscServer(c)

\* the awaited close() settled: fulfilled (ok) or rejected (caught and logged)
SdkDiscResume(c, phase, ok) ==
    IF ~ok THEN [c |-> c, phase |-> "done"]
    ELSE IF phase = "closeSession" THEN SdkDiscServer([c EXCEPT !.session = FALSE])
    ELSE SdkDiscTail([c EXCEPT !.server = FALSE])

\* --- disconnect, "cfg"
CfgDisconnect(c) ==
    [KillProcess([c EXCEPT !.socket = FALSE,
                           !.sockOpen = IF c.socket THEN FALSE ELSE c.sockOpen])
        EXCEPT !.client = FALSE]

\* --- disconnect, "stdio"
StdioDisconnect(c) ==
    [KillProcess(c) EXCEPT !.client = FALSE]

DiscEnter(v, c) ==
    CASE v = "sdk" -> SdkDiscEnter(c)
      [] v = "cfg" -> [c |-> CfgDisconnect(c), phase |-> "done"]
      [] OTHER -> [c |-> StdioDisconnect(c), phase |-> "done"]

DiscResume(v, c, phase, ok) ==
    SdkDiscResume(c, phase, ok)

\* --- connect: the synchronous part up to the first await.  `kind` is what
\* --- the server name or path turns out to be.  Phase "catch" is the entry of
\* --- connect's own catch block.
SdkConnectKinds == {"noPath", "badPort", "socket", "spawn"}

SdkConnBegin(c, kind) ==
    CASE kind \in {"noPath", "badPort"} -> [c |-> c, phase |-> "catch"]
      [] kind = "socket" -> [c |-> [c EXCEPT !.server = TRUE], phase |-> "createSession"]
      [] OTHER -> [c |-> [c EXCEPT !.serverProcess = TRUE, !.procAlive = TRUE,
                                   !.server = TRUE],
                   phase |-> "createSession"]

\* the awaited createSession() or listTools() settled
SdkConnResume(c, phase, ok, ts) ==
    IF ~ok THEN [c |-> c, phase |-> "catch"]
    ELSE IF phase = "createSession"
    THEN [c |-> [c EXCEPT !.session = TRUE], phase |-> "listTools"]
    ELSE [c |-> [c EXCEPT !.tools = ts], phase |-> "resolved"]

CfgConnectKinds == {"configured", "spawnFails", "badPort", "socket", "executable"}

CfgConnBegin(c, kind) ==
    CASE kind \in {"spawnFails", "badPort"} -> [c |-> c, phase |-> "rejected"]
      [] kind = "socket" ->
            [c |-> [c EXCEPT !.socket = TRUE, !.sockOpen = TRUE, !.client = TRUE],
             phase |-> "waitSocket"]
      [] OTHER ->
            [c |-> [c EXCEPT !.serverProcess = TRUE, !.procAlive = TRUE, !.client = TRUE],
             phase |-> "waitTimer"]

\* the 500 ms timer fired, or the socket connected (ok) or emitted 'error'
CfgConnResume(c, phase, ok) ==
    IF phase = "waitTimer" \/ ok THEN [c |-> c, phase |-> "resolved"]
    ELSE [c |-> c, phase |-> "rejected"]

StdioConnectKinds == {"configured", "unknown"}

StdioConnBegin(c, kind) ==
    IF kind = "unknown" THEN [c |-> c, phase |-> "rejected"]
    ELSE [c |-> [c EXCEPT !.serverProcess = TRUE, !.procAlive = TRUE, !.client = TRUE],
          phase |-> "clientConnect"]

\* client.connect(transport) settled, then the 500 ms timer fired
StdioConnResume(c, phase, ok) ==
    IF phase = "clientConnect"
    THEN [c |-> c, phase |-> IF ok THEN "waitTimer" ELSE "rejected"]
    ELSE [c |-> c, phase |-> "resolved"]

ConnectKinds(v) ==
    CASE v = "sdk" -> SdkConnectKinds
      [] v = "cfg" -> CfgConnectKinds
      [] OTHER -> StdioConnectKinds

ConnBegin(v, c, kind) ==
    CASE v = "sdk" -> SdkConnBegin(c, kind)
      [] v = "cfg" -> CfgConnBegin(c, kind)
      [] OTHER -> StdioConnBegin(c, kind)

ConnResume(v, c, phase, ok, ts) ==
    CASE v = "sdk" -> SdkConnResume(c, phase, ok, ts)
      [] v = "cfg" -> CfgConnResume(c, phase, ok)
      [] OTHER -> StdioConnResume(c, phase, ok)

\* if (!this.session) / if (!this.client)
NotConnected(v, c) ==
    IF v = "sdk" THEN ~c.session ELSE ~c.client

ToolList(n) ==
    [i \in 1..n |-> i]

ToolLists ==
    {ToolList(n) : n \in 0..MaxTools}

\* listTools(): it throws, or returns a tool list.  "sdk" returns the list
\* connect stored; "cfg" asks the library, which may throw.
ListToolsOutcomes(v, c) ==
    IF NotConnected(v, c) THEN {[threw |-> TRUE, tools |-> <<>>]}
    ELSE IF v = "sdk" THEN {[threw |-> FALSE, tools |-> c.tools]}
    ELSE {[threw |-> TRUE, tools |-> <<>>]}
         \cup {[threw |-> FALSE, tools |-> ts] : ts \in ToolLists}

\* What the awaited library call of executeTool can do
DataGood == Obj(<< <<sResult, Str(sOk)>> >>)
DataBad == Obj(<< <<sResult, Str(sNo)>> >>)

CallOutcomes ==
    {[ok |-> TRUE, value |-> DataGood, message |-> ""],
     [ok |-> TRUE, value |-> DataBad, message |-> ""],
     [ok |-> FALSE, value |-> Undef, message |-> "server error"]}

\* ExecuteTool without the try/catch around the library call
ExecuteToolPropagates(v, o) ==
    IF o.ok
    THEN [rejects |-> FALSE, message |-> "",
          response |-> [status |-> "success", data |-> o.value]]
    ELSE [rejects |-> TRUE, message |-> o.message, response |-> [status |-> "error"]]

\* executeTool once connected: [rejects, response].  "sdk" turns a failed call
\* into an error response; "cfg" returns the library's promise as it is.
ExecuteTool(v, o) ==
    IF o.ok
    THEN [rejects |-> FALSE, message |-> "",
          response |-> [status |-> "success", data |-> o.value]]
    ELSE IF v = "cfg"
    THEN [rejects |-> TRUE, message |-> o.message, response |-> [status |-> "error"]]
    ELSE [rejects |-> FALSE, message |-> "",
          response |-> [status |-> "error",
                        error |-> IF o.message = "" THEN "Unknown error" ELSE o.message]]

\* executeTool from its first line: the not-connected guard, then the call
ExecuteToolOn(v, c, o) ==
    IF NotConnected(v, c)
    THEN [rejects |-> TRUE,
          message |-> IF v = "cfg" THEN "Not connected to MCP server"
                      ELSE "Not connected to an MCP server",
          response |-> [status |-> "error"]]
    ELSE ExecuteTool(v, o)

\* --- whole calls, as a caller that awaits each call to its end sees them.
\* --- closeOk[1], closeOk[2]: whether session.close(), server.close() fulfil.
RunDisconnect(v, c, closeOk) ==
    LET s0 == DiscEnter(v, c)
        s1 == IF s0.phase = "closeSession" THEN DiscResume(v, s0.c, s0.phase, closeOk[1])
              ELSE s0
        s2 == IF s1.phase = "closeServer" THEN DiscResume(v, s1.c, s1.phase, closeOk[2])
              ELSE s1
    IN [c |-> s2.c, threw |-> FALSE]

\* stepOk[1], stepOk[2]: whether the first and second awaited step of connect
\* fulfil; ts: the tool list the server reports
RunConnect(v, c, kind, stepOk, ts, closeOk) ==
    LET Waiting(ph) == ph \notin {"catch", "resolved", "rejected"}
        s0 == ConnBegin(v, c, kind)
        s1 == IF Waiting(s0.phase) THEN ConnResume(v, s0.c, s0.phase, stepOk[1], ts) ELSE s0
        s2 == IF Waiting(s1.phase) THEN ConnResume(v, s1.c, s1.phase, stepOk[2], ts) ELSE s1
    IN IF s2.phase = "catch"
       THEN [c |-> RunDisconnect(v, s2.c, closeOk).c, threw |-> TRUE]
       ELSE [c |-> s2.c, threw |-> s2.phase = "rejected"]

NoProbe ==
    [fn |-> "none"]

NoCall ==
    [op |-> "none", prevOp |-> "none", before |-> FreshClient, threw |-> FALSE, n |-> 0]

(***************************************************************************)
(* runTests of src/src/index.ts: which servers the loop will visit.         *)
(* `servers` is the configured array, or absent; `mcpServers` is the list   *)
(* of its keys in the order Object.keys gives them, or absent.              *)
(***************************************************************************)
\* selectServers that always takes the keys of mcpServers
selectServersAllKeys(servers, mcpServers) ==
    IF ~mcpServers.present \/ mcpServers.v = <<>>
    THEN [exited |-> TRUE, servers |-> <<>>]
    ELSE [exited |-> FALSE, servers |-> mcpServers.v]

\* "Determine which servers to test": Object.keys of an absent mcpServers
\* throws, and the outer catch exits like the explicit check does
selectServers(servers, mcpServers) ==
    IF servers.present /\ servers.v # <<>>
    THEN [exited |-> FALSE, servers |-> servers.v]
    ELSE IF ~mcpServers.present \/ mcpServers.v = <<>>
    THEN [exited |-> TRUE, servers |-> <<>>]
    ELSE [exited |-> FALSE, servers |-> mcpServers.v]

(***************************************************************************)
(* runTests of src/src/index.ts: the loop over the configured servers.      *)
(* Each action runs from one await to the next.                             *)
(***************************************************************************)
Init ==
    /\ variant \in {"sdk", "cfg"}
    /\ srv = 1
    /\ opc = "loop"
    /\ client = FreshClient
    /\ clientRef = FALSE
    /\ cpc = "idle"
    /\ tools = <<>>
    /\ toolIdx = 0
    /\ testCases = <<>>
    /\ results = <<>>
    /\ testIdx = 0
    /\ abandoned = {}
    /\ pending = FALSE
    /\ disc = 0
    /\ campaign = "none"
    /\ reported = FALSE
    /\ reportFile = {}
    /\ last = NoCall
    /\ probe = NoProbe

\* EnterFinally with the cleanup at the end of the try block instead of in a
\* finally block: an exception skips disconnect()
EnterFinallyOnlyOnSuccess(exc, how) ==
    LET d == DiscEnter(variant, client)
    IN /\ pending' = exc
       /\ campaign' = how
       /\ IF exc
          THEN /\ client' = client
               /\ disc' = disc
               /\ clientRef' = TRUE
               /\ opc' = "iterEnd"
          ELSE /\ client' = d.c
               /\ disc' = disc + 1
               /\ clientRef' = (d.phase # "done")
               /\ opc' = CASE d.phase = "closeSession" -> "finCloseSession"
                           [] d.phase = "closeServer" -> "finCloseServer"
                           [] OTHER -> "iterEnd"

\* EnterFinally with the empty-tool-list `continue` leaving the iteration
\* without running the cleanup
EnterFinallySkipsEarlyExit(exc, how) ==
    LET d == DiscEnter(variant, client)
    IN /\ pending' = exc
       /\ campaign' = how
       /\ IF how = "empty"
          THEN /\ client' = client
               /\ disc' = disc
               /\ clientRef' = TRUE
               /\ opc' = "iterEnd"
          ELSE /\ client' = d.c
               /\ disc' = disc + 1
               /\ clientRef' = (d.phase # "done")
               /\ opc' = CASE d.phase = "closeSession" -> "finCloseSession"
                           [] d.phase = "closeServer" -> "finCloseServer"
                           [] OTHER -> "iterEnd"

\* The inner finally block: client.disconnect() is called and runs to its first
\* await; when it has returned, client = null.  `exc` says whether an exception
\* is propagating, `how` records how the try block ended.
EnterFinally(exc, how) ==
    LET d == DiscEnter(variant, client)
    IN /\ client' = d.c
       /\ disc' = disc + 1
       /\ pending' = exc
       /\ campaign' = how
       /\ clientRef' = (d.phase # "done")
       /\ opc' = CASE d.phase = "closeSession" -> "finCloseSession"
                   [] d.phase = "closeServer" -> "finCloseServer"
                   [] OTHER -> "iterEnd"

\* for (const serverName of testConfig.servers): client = new MCPClient() and
\* the call of client.connect, up to its first await
StartServer ==
    /\ opc = "loop"
    /\ \E kind \in ConnectKinds(variant) :
          LET b == ConnBegin(variant, FreshClient, kind)
              d == DiscEnter(variant, b.c)
          IN IF b.phase = "catch"
             THEN /\ client' = d.c
                  /\ disc' = 1
                  /\ cpc' = IF d.phase = "done" THEN "rejected" ELSE d.phase
             ELSE /\ client' = b.c
                  /\ disc' = 0
                  /\ cpc' = b.phase
    /\ opc' = "awaitConnect"
    /\ clientRef' = TRUE
    /\ campaign' = "running"
    /\ UNCHANGED <<probe, last, reportFile, variant, srv, tools, toolIdx, testCases, results, testIdx, abandoned,
                   pending, reported>>

\* runTests is suspended at an await whose wait lets connection callbacks run
OrchSuspended ==
    opc \in {"awaitConnect", "finCloseSession", "finCloseServer"}

\* An awaited step inside connect() settles
ConnectStep ==
    /\ OrchSuspended
    /\ cpc \in {"createSession", "listTools", "waitTimer", "waitSocket"}
    /\ \E ok \in BOOLEAN, ts \in ToolLists :
          LET r == ConnResume(variant, client, cpc, ok, ts)
              d == DiscEnter(variant, r.c)
          IN IF r.phase = "catch"
             THEN /\ client' = d.c
                  /\ disc' = disc + 1
                  /\ cpc' = IF d.phase = "done" THEN "rejected" ELSE d.phase
             ELSE /\ client' = r.c
                  /\ disc' = disc
                  /\ cpc' = r.phase
    /\ UNCHANGED <<probe, last, reportFile, variant, srv, opc, clientRef, tools, toolIdx, testCases, results,
                   testIdx, abandoned, pending, campaign, reported>>

\* An awaited close() inside the disconnect() called by connect's catch settles;
\* when disconnect has returned, connect rethrows
ConnectCatchStep ==
    /\ OrchSuspended
    /\ cpc \in {"closeSession", "closeServer"}
    /\ \E ok \in BOOLEAN :
          LET r == DiscResume(variant, client, cpc, ok)
          IN /\ client' = r.c
             /\ cpc' = IF r.phase = "done" THEN "rejected" ELSE r.phase
    /\ UNCHANGED <<probe, last, reportFile, variant, srv, opc, clientRef, tools, toolIdx, testCases, results,
                   testIdx, abandoned, pending, disc, campaign, reported>>

\* Promise.race([connectionPromise, timeoutPromise]) settles with the connection
OrchConnected ==
    /\ opc = "awaitConnect"
    /\ cpc = "resolved"
    /\ opc' = "listTools"
    /\ UNCHANGED <<probe, last, reportFile, variant, srv, client, clientRef, cpc, tools, toolIdx, testCases,
                   results, testIdx, abandoned, pending, disc, campaign, reported>>

OrchConnectFailed ==
    /\ opc = "awaitConnect"
    /\ cpc = "rejected"
    /\ EnterFinally(TRUE, "connectFailed")
    /\ UNCHANGED <<probe, last, reportFile, variant, srv, cpc, tools, toolIdx, testCases, results, testIdx,
                   abandoned, reported>>

\* the connection timer fires while connect() has not settled
OrchConnectTimeout ==
    /\ opc = "awaitConnect"
    /\ cpc \notin {"resolved", "rejected"}
    /\ EnterFinally(TRUE, "connectTimeout")
    /\ UNCHANGED <<probe, last, reportFile, variant, srv, cpc, tools, toolIdx, testCases, results, testIdx,
                   abandoned, reported>>

\* const tools = client.listTools(); if (tools.length === 0) continue
ListTools ==
    /\ opc = "listTools"
    /\ \E o \in ListToolsOutcomes(variant, client) :
          IF o.threw
          THEN /\ EnterFinally(TRUE, "listToolsThrew")
               /\ UNCHANGED <<tools, toolIdx>>
          ELSE IF o.tools = <<>>
          THEN /\ EnterFinally(FALSE, "empty")
               /\ UNCHANGED <<tools, toolIdx>>
          ELSE /\ tools' = o.tools
               /\ toolIdx' = 1
               /\ opc' = "generate"
               /\ UNCHANGED <<client, clientRef, pending, disc, campaign>>
    /\ UNCHANGED <<probe, last, reportFile, variant, srv, cpc, testCases, results, testIdx, abandoned, reported>>

\* generateTests: the completion call for one tool settles
GenTool ==
    /\ opc = "generate"
    /\ \E callThrows \in BOOLEAN, reply \in Replies :
          LET all == GenerateForTool(testCases, tools[toolIdx], callThrows, reply)
          IN /\ Len(all) <= MaxCases
             /\ testCases' = all
             /\ IF toolIdx < Len(tools)
                THEN /\ toolIdx' = toolIdx + 1
                     /\ UNCHANGED <<opc, testIdx>>
                ELSE /\ toolIdx' = toolIdx
                     /\ testIdx' = 1
                     /\ opc' = IF all = <<>> THEN "report" ELSE "exec"
    /\ UNCHANGED <<probe, last, reportFile, variant, srv, client, clientRef, cpc, tools, results, abandoned,
                   pending, disc, campaign, reported>>

\* PushResult with a catch block that logs the error and pushes nothing
PushResultDropsFailure(r) ==
    /\ results' = IF "response" \in DOMAIN r THEN Append(results, r) ELSE results
    /\ testIdx' = testIdx + 1
    /\ opc' = IF testIdx < Len(testCases) THEN "exec" ELSE "report"

\* PushResult with a failure that leaves the for-loop
PushResultAbortsOnFailure(r) ==
    /\ results' = Append(results, r)
    /\ testIdx' = testIdx + 1
    /\ opc' = IF testIdx < Len(testCases) /\ "response" \in DOMAIN r THEN "exec" ELSE "report"

\* results.push(...) and the step of the for-loop over testCases
PushResult(r) ==
    /\ results' = Append(results, r)
    /\ testIdx' = testIdx + 1
    /\ opc' = IF testIdx < Len(testCases) THEN "exec" ELSE "report"

\* FailedResult with an empty error list
FailedResultNoErrors(testCase, message) ==
    [testCase |-> testCase, passed |-> FALSE, validationErrors |-> <<>>]

\* FailedResult without the caught error's message
FailedResultNoMessage(testCase, message) ==
    [testCase |-> testCase, passed |-> FALSE, validationErrors |-> <<"Unexpected error">>]

\* the catch block of one test case
FailedResult(testCase, message) ==
    [testCase |-> testCase, passed |-> FALSE,
     validationErrors |-> <<"Unexpected error: " \o message>>]

\* the try block after the race has been won by the invocation
GradedResult(testCase, response) ==
    LET validationResult == validateResponse(response, testCase)
    IN IF validationResult.thrown
       THEN FailedResult(testCase, "validator threw")
       ELSE [testCase |-> testCase, passed |-> validationResult.valid,
             response |-> response, validationErrors |-> validationResult.errors]

\* client.executeTool(testCase.toolName, testCase.inputs) is called
ExecStart ==
    /\ opc = "exec"
    /\ IF NotConnected(variant, client)
       THEN PushResult(FailedResult(testCases[testIdx], "Not connected to an MCP server"))
       ELSE /\ opc' = "awaitTool"
            /\ UNCHANGED <<results, testIdx>>
    /\ UNCHANGED <<probe, last, reportFile, variant, srv, client, clientRef, cpc, tools, toolIdx, testCases,
                   abandoned, pending, disc, campaign, reported>>

\* the invocation settles before the timer fires
ToolSettle ==
    /\ opc = "awaitTool"
    /\ \E o \in CallOutcomes :
          LET e == ExecuteTool(variant, o)
          IN IF e.rejects
             THEN PushResult(FailedResult(testCases[testIdx], e.message))
             ELSE PushResult(GradedResult(testCases[testIdx], e.response))
    /\ UNCHANGED <<probe, last, reportFile, variant, srv, client, clientRef, cpc, tools, toolIdx, testCases,
                   abandoned, pending, disc, campaign, reported>>

\* the per-test timer fires first
ToolTimeout ==
    /\ opc = "awaitTool"
    /\ abandoned' = abandoned \cup {testIdx}
    /\ PushResult(FailedResult(testCases[testIdx], "Tool execution timeout"))
    /\ UNCHANGED <<probe, last, reportFile, variant, srv, client, clientRef, cpc, tools, toolIdx, testCases,
                   pending, disc, campaign, reported>>

\* AbandonedSettle whose late outcome takes the place of the timeout result
AbandonedSettleReplacesResult ==
    /\ opc \in {"awaitTool", "finCloseSession", "finCloseServer"}
    /\ \E i \in abandoned, o \in CallOutcomes :
          LET e == ExecuteTool(variant, o)
          IN /\ abandoned' = abandoned \ {i}
             /\ results' = [results EXCEPT ![i] =
                               IF e.rejects THEN FailedResult(testCases[i], e.message)
                               ELSE GradedResult(testCases[i], e.response)]
    /\ UNCHANGED <<probe, last, reportFile, variant, srv, opc, client, clientRef, cpc, tools, toolIdx, testCases,
                   testIdx, pending, disc, campaign, reported>>

\* an invocation that lost its race settles: the promise Promise.race has
\* already rejected ignores it, and nothing else listens
AbandonedSettle ==
    /\ opc \in {"awaitTool", "finCloseSession", "finCloseServer"}
    /\ \E i \in abandoned : abandoned' = abandoned \ {i}
    /\ UNCHANGED <<probe, last, reportFile, variant, srv, opc, client, clientRef, cpc, tools, toolIdx, testCases,
                   results, testIdx, pending, disc, campaign, reported>>

\* await reporter.generateReport(results, testConfig), with an output path
\* configured: it returns, having written this server's results as the whole
\* content of the file, or throws
Report ==
    /\ opc = "report"
    /\ reported' = TRUE
    /\ \E ok \in BOOLEAN :
          /\ EnterFinally(~ok, IF ok THEN "completed" ELSE "reportFailed")
          /\ reportFile' = IF ok THEN {srv} ELSE reportFile
    /\ UNCHANGED <<probe, last, variant, srv, cpc, tools, toolIdx, testCases, results, testIdx,
                   abandoned>>

\* an awaited close() inside the disconnect() of the inner finally settles
FinallyStep ==
    /\ opc \in {"finCloseSession", "finCloseServer"}
    /\ \E ok \in BOOLEAN :
          LET phase == IF opc = "finCloseSession" THEN "closeSession" ELSE "closeServer"
              r == DiscResume(variant, client, phase, ok)
          IN /\ client' = r.c
             /\ clientRef' = (r.phase # "done")
             /\ opc' = CASE r.phase = "closeSession" -> "finCloseSession"
                         [] r.phase = "closeServer" -> "finCloseServer"
                         [] OTHER -> "iterEnd"
    /\ UNCHANGED <<probe, last, reportFile, variant, srv, cpc, tools, toolIdx, testCases, results, testIdx,
                   abandoned, pending, disc, campaign, reported>>

\* The end of one iteration: a propagating exception reaches the outer catch,
\* which calls process.exit(1); otherwise the loop goes on, or the run completes
\* and the outer finally finds client = null.  The locals of the iteration go
\* out of scope.
LoopNext ==
    /\ opc = "iterEnd"
    /\ IF pending
       THEN opc' = "exited" /\ srv' = srv
       ELSE IF srv < NumServers
       THEN opc' = "loop" /\ srv' = srv + 1
       ELSE opc' = "done" /\ srv' = srv
    /\ client' = FreshClient
    /\ cpc' = "idle"
    /\ tools' = <<>>
    /\ toolIdx' = 0
    /\ testCases' = <<>>
    /\ results' = <<>>
    /\ testIdx' = 0
    /\ abandoned' = {}
    /\ disc' = 0
    /\ reported' = FALSE
    /\ UNCHANGED <<probe, last, reportFile, variant, clientRef, pending, campaign>>

Next ==
    \/ StartServer
    \/ ConnectStep
    \/ ConnectCatchStep
    \/ OrchConnected
    \/ OrchConnectFailed
    \/ OrchConnectTimeout
    \/ ListTools
    \/ GenTool
    \/ ExecStart
    \/ ToolSettle
    \/ ToolTimeout
    \/ AbandonedSettle
    \/ Report
    \/ FinallyStep
    \/ LoopNext

Spec == Init /\ [][Next]_vars

(***************************************************************************)
(* Properties of the orchestration loop                                     *)
(***************************************************************************)
\* The campaign got past a successful connect
ConnectSucceeded ==
    \/ opc \in {"listTools", "generate", "exec", "awaitTool", "report"}
    \/ /\ opc \in {"finCloseSession", "finCloseServer", "iterEnd"}
       /\ campaign \in {"listToolsThrew", "empty", "completed", "reportFailed"}

\* The for-loop over testCases has been left
LoopOver ==
    \/ opc = "report"
    \/ opc \in {"finCloseSession", "finCloseServer", "iterEnd"} /\ reported

IsCaughtFailure(r) ==
    "response" \notin DOMAIN r

TimeoutMessage == "Unexpected error: Tool execution timeout"

\* C1: the k-th result belongs to the k-th test case at every moment, the loop
\* has produced one result per test case it has finished, and when the loop is
\* over there are exactly as many results as test cases
C1_OneResultPerTestCaseInOrder ==
    /\ Len(results) <= Len(testCases)
    /\ \A i \in 1..Len(results) : results[i].testCase = testCases[i]
    /\ opc \in {"exec", "awaitTool"} => Len(results) = testIdx - 1
    /\ LoopOver => Len(results) = Len(testCases)

C1_Witness ==
    /\ opc = "report"
    /\ Len(testCases) = 2
    /\ testCases[1] # testCases[2]
    /\ results[1].validationErrors = <<TimeoutMessage>>
    /\ ~IsCaughtFailure(results[2])
    /\ results[2].response.status = "error"

\* C2: once connect has succeeded, disconnect() has not been called while the
\* try block runs, and it has been called exactly once from the moment the
\* inner finally is entered, however the try block ended
C2_DisconnectOnceAfterConnect ==
    ConnectSucceeded =>
        IF opc \in {"listTools", "generate", "exec", "awaitTool", "report"}
        THEN disc = 0
        ELSE disc = 1

C2_Witness ==
    /\ opc = "iterEnd"
    /\ campaign = "reportFailed"
    /\ pending
    /\ disc = 1
    /\ Len(results) = 2

\* C3: a failed or timed-out connect of a server that has later servers after
\* it never terminates the run
C3_ConnectFailureDoesNotEndRun ==
    (opc = "exited" /\ srv < NumServers) => campaign \notin {"connectFailed", "connectTimeout"}

\* C4: when listTools throws after a successful connect, disconnect() is called
\* exactly once and the run goes on with the next server instead of ending
C4_ListToolsThrowMovesOn ==
    campaign = "listToolsThrew" =>
        /\ opc = "iterEnd" => disc = 1
        /\ opc # "exited"

\* C5: while an invocation that lost its race is still unsettled, its test case
\* already has its result (failed, no response, one error naming the timeout)
\* and the loop has moved past it
C5_TimeoutYieldsFailureWithoutWaiting ==
    \A i \in abandoned :
        /\ i <= Len(results)
        /\ testIdx > i
        /\ results[i].testCase = testCases[i]
        /\ results[i].passed = FALSE
        /\ IsCaughtFailure(results[i])
        /\ results[i].validationErrors = <<TimeoutMessage>>

C5_Witness ==
    /\ opc = "awaitTool"
    /\ testIdx = 2
    /\ 1 \in abandoned
    /\ Len(results) = 1

\* C6: a result built by the catch block has passed = false, no response and a
\* single error message, and as long as test cases remain the loop is still
\* running them
C6_FailureIsCaughtPerTestCase ==
    /\ \A i \in 1..Len(results) :
          IsCaughtFailure(results[i]) =>
              /\ results[i].passed = FALSE
              /\ Len(results[i].validationErrors) = 1
              /\ results[i].testCase = testCases[i]
    /\ (opc \notin {"listTools", "generate"} /\ Len(results) < Len(testCases))
          => opc \in {"exec", "awaitTool"}

C6_Witness ==
    /\ variant = "cfg"
    /\ Len(results) = 2
    /\ results[1].validationErrors = <<"Unexpected error: server error">>
    /\ IsCaughtFailure(results[1])
    /\ ~IsCaughtFailure(results[2])

\* C7: a campaign that ended on an empty tool list has no test case, no
\* result, no invocation and no report, its client is disconnected once, no
\* exception propagates and the run goes on
C7_EmptyToolListIsNotAnError ==
    campaign = "empty" =>
        /\ testCases = <<>>
        /\ results = <<>>
        /\ testIdx = 0
        /\ abandoned = {}
        /\ ~reported
        /\ ~pending
        /\ opc \in {"finCloseSession", "finCloseServer", "iterEnd", "loop", "done"}
        /\ opc = "iterEnd" => disc = 1

C7_Witness ==
    /\ campaign = "empty"
    /\ opc = "loop"
    /\ srv = 2

\* C8: a success response that fails one of the rules generated for its test
\* case is graded as failed, with that rule's message among the errors
C8_GeneratedRulesAreEvaluated ==
    \A i \in 1..Len(results) :
        LET r == results[i]
            rules == r.testCase.expectedOutcome.validationRules
        IN (~IsCaughtFailure(r) /\ r.response.status = "success") =>
              \A j \in 1..Len(rules) :
                  RuleOutcome(r.response.data, rules[j]) = "fail" =>
                      /\ ~r.passed
                      /\ \E k \in 1..Len(r.validationErrors) :
                            r.validationErrors[k] = rules[j].message

(***************************************************************************)
(* A direct caller of one MCPClient instance: it calls connect and          *)
(* disconnect in any order and awaits each call to its end.                 *)
(***************************************************************************)
InitConn ==
    /\ variant \in {"sdk", "cfg", "stdio"}
    /\ client = FreshClient
    /\ last = NoCall
    /\ probe = NoProbe
    /\ srv = 1
    /\ opc = "loop"
    /\ clientRef = FALSE
    /\ cpc = "idle"
    /\ tools = <<>>
    /\ toolIdx = 0
    /\ testCases = <<>>
    /\ results = <<>>
    /\ testIdx = 0
    /\ abandoned = {}
    /\ pending = FALSE
    /\ disc = 0
    /\ campaign = "none"
    /\ reported = FALSE
    /\ reportFile = {}

ConnectCall ==
    /\ last.n < MaxCalls
    /\ \E kind \in ConnectKinds(variant), stepOk \in [1..2 -> BOOLEAN],
          ts \in ToolLists, closeOk \in [1..2 -> BOOLEAN] :
          LET r == RunConnect(variant, client, kind, stepOk, ts, closeOk)
          IN /\ client' = r.c
             /\ last' = [op |-> "connect", prevOp |-> last.op, before |-> client,
                         threw |-> r.threw, n |-> last.n + 1]
    /\ UNCHANGED <<variant, orchVars, probe>>

DisconnectCall ==
    /\ last.n < MaxCalls
    /\ \E closeOk \in [1..2 -> BOOLEAN] :
          LET r == RunDisconnect(variant, client, closeOk)
          IN /\ client' = r.c
             /\ last' = [op |-> "disconnect", prevOp |-> last.op, before |-> client,
                         threw |-> r.threw, n |-> last.n + 1]
    /\ UNCHANGED <<variant, orchVars, probe>>

\* the caller invokes executeTool and awaits it
ExecuteToolCall ==
    /\ \E o \in CallOutcomes :
          probe' = [fn |-> "executeTool",
                    connected |-> ~NotConnected(variant, client),
                    call |-> o,
                    out |-> ExecuteToolOn(variant, client, o)]
    /\ UNCHANGED <<variant, client, last, orchVars>>

NextConn ==
    \/ ConnectCall
    \/ DisconnectCall
    \/ ExecuteToolCall

SpecConn == InitConn /\ [][NextConn]_vars

\* C9: disconnect() never throws, and a disconnect() that directly follows
\* another disconnect() leaves every field of the instance as it found it
C9_DisconnectIdempotent ==
    last.op = "disconnect" =>
        /\ ~last.threw
        /\ last.prevOp = "disconnect" => client = last.before

\* C10: when disconnect() has returned, the instance holds no session, no
\* server handle and no child process reference, and the process is killed
C10_DisconnectReleasesEverything ==
    last.op = "disconnect" =>
        /\ ~client.session
        /\ ~client.server
        /\ ~client.serverProcess
        /\ ~client.procAlive

(***************************************************************************)
(* The connection after disconnect                                          *)
(***************************************************************************)
\* C11: when the disconnect() of the inner finally has returned with its
\* cleanup run to the end (server handle and process reference cleared), the
\* instance is not connected: it has no session (no client), so listTools
\* throws its not-connected error
C11_DisconnectedIsTerminal ==
    (opc = "iterEnd" /\ disc >= 1 /\ ~client.server /\ ~client.serverProcess)
        => NotConnected(variant, client)

\* C12: on an instance on which no connect has succeeded (nothing called yet,
\* a first connect that failed, or a disconnect just returned) listTools takes
\* its not-connected branch
C12_ListToolsNeedsConnect ==
    (\/ last.op = "none"
     \/ last.op = "connect" /\ last.threw /\ last.prevOp = "none"
     \/ last.op = "disconnect")
        => NotConnected(variant, client)

sA == <<"a">>
sB == <<"b">>
sN == <<"n">>
sXs == <<"x", "s">>
sZ == <<"z">>

DataRich ==
    Obj(<< <<sResult, Str(sOk)>>,
           <<sA, Obj(<< <<sB, Str(sOk)>> >>)>>,
           <<sN, Num(42)>>,
           <<sXs, Arr(<<Str(sA), Str(sB)>>)>>,
           <<sZ, Null>> >>)

\* the same two entries, inserted in the two possible orders
PairAB == Obj(<< <<sA, Num(1)>>, <<sB, Num(2)>> >>)
PairBA == Obj(<< <<sB, Num(2)>>, <<sA, Num(1)>> >>)
DataPair == Obj(<< <<sResult, PairAB>> >>)

ValDatas ==
    {DataRich, DataBad, DataPair, Str(sOk), Arr(<<Str(sA), Str(sB)>>), Num(42), Null, Undef}

ValResponses ==
    {[status |-> "success", data |-> d] : d \in ValDatas}
    \cup {[status |-> "error", error |-> m] : m \in {"server error", ""}}
    \cup {[status |-> "error"]}

ValTargets ==
    {Undef, Str(<<>>), Str(sResult), Str(<<"a", ".", "b">>), Str(sN), Str(sXs),
     Str(<<"x", "s", ".", "0">>), Str(sZ), Str(<<"z", ".", "b">>), Str(<<"m">>),
     Str(sConstructor)}

ValValues ==
    {Undef, Str(sOk), Str(<<"o">>), Str(sB), Str(<<"4">>), Num(42),
     Str(<<"/", "^", "o", "/">>), Str(<<"/", "(", "/">>), PairAB, PairBA, Null}

\* rules of the three declarative kinds, over every target and value
PlainRules ==
    {[type |-> k, target |-> t, value |-> v, message |-> k \o " rule failed"] :
        k \in {"contains", "matches", "hasProperty"}, t \in ValTargets, v \in ValValues}

\* custom rules: the predicate sits in `custom` (the field validateRules reads),
\* in `customValidator` (the field ValidationRule declares), or is missing
CustomRules ==
    {[type |-> "custom", target |-> Undef, value |-> Undef, message |-> "custom rule failed",
      custom |-> p] : p \in {"truthy", "never", "always", "throws"}}
    \cup {[type |-> "custom", target |-> Undef, value |-> Undef,
           message |-> "custom rule failed", customValidator |-> p] :
             p \in {"truthy", "never", "always", "throws"}}
    \cup {[type |-> "custom", target |-> Undef, value |-> Undef,
           message |-> "custom rule failed"]}

\* rules with messages of their own, for lists of several rules
ListRules ==
    {[type |-> "contains", target |-> Str(sResult), value |-> Str(sOk), message |-> "m1"],
     [type |-> "matches", target |-> Str(sN), value |-> Num(42), message |-> "m2"],
     [type |-> "hasProperty", target |-> Str(<<"a", ".", "b">>), value |-> Undef,
      message |-> "m3"],
     [type |-> "custom", target |-> Undef, value |-> Undef, message |-> "m4",
      custom |-> "truthy"],
     [type |-> "matches", target |-> Str(sResult), value |-> Str(<<"/", "(", "/">>),
      message |-> "m5"],
     [type |-> "exists", target |-> Str(sResult), value |-> Undef, message |-> "m6"]}

ValRuleLists ==
    {<<r>> : r \in PlainRules \cup CustomRules} \cup SeqsUpTo(ListRules, MaxRules)

ValTestCase(status, rules) ==
    [toolName |-> "tool", description |-> "direct",
     expectedOutcome |-> [status |-> status, validationRules |-> <<>>],
     validationRules |-> rules]

ValTestCases ==
    {ValTestCase(st, rules) : st \in {"success", "error"}, rules \in ValRuleLists}

\* the caller has a response and a test case in hand
InitVal ==
    /\ variant = "sdk"
    /\ client = FreshClient
    /\ last = NoCall
    /\ \E response \in ValResponses, testCase \in ValTestCases :
          probe = [fn |-> "input", response |-> response, testCase |-> testCase]
    /\ srv = 1
    /\ opc = "loop"
    /\ clientRef = FALSE
    /\ cpc = "idle"
    /\ tools = <<>>
    /\ toolIdx = 0
    /\ testCases = <<>>
    /\ results = <<>>
    /\ testIdx = 0
    /\ abandoned = {}
    /\ pending = FALSE
    /\ disc = 0
    /\ campaign = "none"
    /\ reported = FALSE
    /\ reportFile = {}

\* validator.validateResponse(response, testCase)
ValidateCall ==
    /\ probe.fn = "input"
    /\ probe' = [fn |-> "validateResponse", response |-> probe.response,
                 testCase |-> probe.testCase,
                 out |-> validateResponse(probe.response, probe.testCase)]
    /\ UNCHANGED <<variant, client, last, orchVars>>

\* the caller validates the same two objects a second time
ValidateAgain ==
    /\ probe.fn = "validateResponse"
    /\ LET after1 == validateResponseEffect(probe.response, probe.testCase)
           after2 == validateResponseEffect(after1.response, after1.testCase)
       IN probe' = [fn |-> "validateTwice", response |-> probe.response,
                    testCase |-> probe.testCase, out |-> probe.out,
                    second |-> validateResponse(after1.response, after1.testCase),
                    responseAfter |-> after2.response,
                    testCaseAfter |-> after2.testCase]
    /\ UNCHANGED <<variant, client, last, orchVars>>

NextVal ==
    \/ ValidateCall
    \/ ValidateAgain

SpecVal == InitVal /\ [][NextVal]_vars

(***************************************************************************)
(* Properties of validateResponse                                           *)
(***************************************************************************)
\* C14: a test case that expects success and gets an error response is graded
\* invalid with exactly one error, whatever rules it carries; validation does
\* not throw, so no rule was evaluated
C14_ErrorResponseShortCircuits ==
    (/\ probe.fn = "validateResponse"
     /\ probe.testCase.expectedOutcome.status = "success"
     /\ probe.response.status = "error")
        => /\ ~probe.out.thrown
           /\ ~probe.out.valid
           /\ Len(probe.out.errors) = 1

C14_Witness ==
    /\ probe.fn = "validateResponse"
    /\ probe.testCase.expectedOutcome.status = "success"
    /\ Len(probe.testCase.validationRules) = 2
    /\ probe.testCase.validationRules[1].message = "m5"
    /\ probe.testCase.validationRules[2].message = "m3"
    /\ probe.response.status = "error"
    /\ probe.out.errors = <<"Tool execution failed: server error">>

\* C15: a test case that expects an error and gets an error response is graded
\* valid with no errors
C15_ExpectedErrorIsSatisfied ==
    (/\ probe.fn = "validateResponse"
     /\ probe.testCase.expectedOutcome.status = "error"
     /\ probe.response.status = "error")
        => /\ ~probe.out.thrown
           /\ probe.out.valid
           /\ probe.out.errors = <<>>

\* C16: a test case that expects an error and gets a success response is
\* graded invalid with exactly one error, and no rule is evaluated
C16_UnexpectedSuccessIsMismatch ==
    (/\ probe.fn = "validateResponse"
     /\ probe.testCase.expectedOutcome.status = "error"
     /\ probe.response.status = "success")
        => /\ ~probe.out.thrown
           /\ ~probe.out.valid
           /\ Len(probe.out.errors) = 1

\* C17: for a success response and a non-empty list of rules of the four
\* declared kinds, when validation returns, its errors are the messages of
\* exactly the rules that fail on the data, one per failing rule, in the order
\* of the rule list
C17_RulesAccumulateInOrder ==
    (/\ probe.fn = "validateResponse"
     /\ probe.response.status = "success"
     /\ probe.testCase.validationRules # <<>>
     /\ \A i \in 1..Len(probe.testCase.validationRules) :
           probe.testCase.validationRules[i].type
              \in {"contains", "matches", "hasProperty", "custom"}
     /\ ~probe.out.thrown)
        => LET rules == probe.testCase.validationRules
               failing == SelectSeq(rules,
                             LAMBDA r : RuleOutcome(probe.response.data, r) = "fail")
           IN /\ probe.out.errors = [i \in 1..Len(failing) |-> failing[i].message]
              /\ probe.out.valid = (failing = <<>>)

C17_Witness ==
    /\ probe.fn = "validateResponse"
    /\ probe.response = [status |-> "success", data |-> DataBad]
    /\ Len(probe.testCase.validationRules) = 2
    /\ probe.out.errors = <<"m1", "m2">>

\* C18: on a success response that was expected, a contains, matches or
\* hasProperty rule with neither target nor value adds no error and does not
\* make validation throw
C18_IncompleteRuleIsSkipped ==
    (/\ probe.fn = "validateResponse"
     /\ probe.testCase.expectedOutcome.status = "success"
     /\ probe.response.status = "success"
     /\ Len(probe.testCase.validationRules) = 1
     /\ probe.testCase.validationRules[1].type \in {"contains", "matches", "hasProperty"}
     /\ probe.testCase.validationRules[1].target = Undef
     /\ probe.testCase.validationRules[1].value = Undef)
        => /\ ~probe.out.thrown
           /\ probe.out.errors = <<>>

\* C19: on a success response that was expected, validation of a custom rule
\* does not throw even when the predicate does, and a custom rule whose
\* predicate sits in the declared field
\* (customValidator) fails exactly when that predicate, applied to the response
\* data, returns false or throws
C19_CustomPredicateDecides ==
    (/\ probe.fn = "validateResponse"
     /\ probe.testCase.expectedOutcome.status = "success"
     /\ probe.response.status = "success"
     /\ Len(probe.testCase.validationRules) = 1
     /\ probe.testCase.validationRules[1].type = "custom")
        => LET rule == probe.testCase.validationRules[1]
           IN /\ ~probe.out.thrown
              /\ "customValidator" \in DOMAIN rule =>
                    (probe.out.errors =
                        IF ApplyPredicate(rule.customValidator, probe.response.data)
                              \in {"false", "throw"}
                        THEN <<rule.message>> ELSE <<>>)

\* C20: a single contains rule passes exactly when the value found at its
\* dotted path is a string and the rule's value a substring of it, or an array
\* and the rule's value one of its elements; otherwise its message is the error
C20_ContainsSemantics ==
    (/\ probe.fn = "validateResponse"
     /\ probe.response.status = "success"
     /\ Len(probe.testCase.validationRules) = 1
     /\ probe.testCase.validationRules[1].type = "contains")
        => LET rule == probe.testCase.validationRules[1]
               found == getValueByPath(probe.response.data, rule.target)
               passes ==
                  \/ /\ found.t = "string"
                     /\ rule.value.t = "string"
                     /\ IsSubstring(rule.value.v, found.v)
                  \/ /\ found.t = "array"
                     /\ \E i \in 1..Len(found.v) : found.v[i] = rule.value
           IN /\ ~probe.out.thrown
              /\ probe.out.errors = IF passes THEN <<>> ELSE <<rule.message>>

C20_Witness ==
    /\ probe.fn = "validateResponse"
    /\ probe.response = [status |-> "success", data |-> DataRich]
    /\ Len(probe.testCase.validationRules) = 1
    /\ probe.testCase.validationRules[1].type = "contains"
    /\ probe.testCase.validationRules[1].target = Str(sXs)
    /\ probe.testCase.validationRules[1].value = Str(sB)
    /\ probe.out.valid

\* C21: on a success response that was expected, a single matches rule whose
\* value is not a /.../ string passes exactly when the value found at its
\* dotted path is deeply equal to the rule's value: same kind, same scalar,
\* same elements in order, same keys with equal values in whatever order
C21_MatchesIsDeepEquality ==
    (/\ probe.fn = "validateResponse"
     /\ probe.testCase.expectedOutcome.status = "success"
     /\ probe.response.status = "success"
     /\ Len(probe.testCase.validationRules) = 1
     /\ probe.testCase.validationRules[1].type = "matches"
     /\ probe.testCase.validationRules[1].value # Undef
     /\ LET value == probe.testCase.validationRules[1].value
        IN ~(/\ value.t = "string"
             /\ Len(value.v) >= 1
             /\ value.v[1] = "/"
             /\ value.v[Len(value.v)] = "/"))
        => LET rule == probe.testCase.validationRules[1]
               found == getValueByPath(probe.response.data, rule.target)
               RECURSIVE DeepEqual(_, _)
               DeepEqual(x, y) ==
                  /\ x.t = y.t
                  /\ CASE x.t \in {"boolean", "number", "string"} -> x.v = y.v
                       [] x.t = "array" ->
                             /\ Len(x.v) = Len(y.v)
                             /\ \A i \in 1..Len(x.v) : DeepEqual(x.v[i], y.v[i])
                       [] x.t = "object" ->
                             /\ Len(x.v) = Len(y.v)
                             /\ \A i \in 1..Len(x.v) :
                                   \E j \in 1..Len(y.v) :
                                      /\ x.v[i][1] = y.v[j][1]
                                      /\ DeepEqual(x.v[i][2], y.v[j][2])
                       [] OTHER -> TRUE
           IN /\ ~probe.out.thrown
              /\ probe.out.errors = IF DeepEqual(found, rule.value) THEN <<>>
                                    ELSE <<rule.message>>

\* C22: on a success response that was expected, a single hasProperty rule with
\* a dotted path passes exactly when each segment in turn names a property that
\* the value reached so far, an object or an array, holds itself; what is
\* stored at the last segment does not matter
C22_HasPropertyFollowsOwnKeys ==
    (/\ probe.fn = "validateResponse"
     /\ probe.testCase.expectedOutcome.status = "success"
     /\ probe.response.status = "success"
     /\ Len(probe.testCase.validationRules) = 1
     /\ probe.testCase.validationRules[1].type = "hasProperty"
     /\ probe.testCase.validationRules[1].target.t = "string")
        => LET rule == probe.testCase.validationRules[1]
               RECURSIVE PathExists(_, _)
               PathExists(cur, parts) ==
                  \/ parts = <<>>
                  \/ /\ HasOwnKey(cur, Head(parts))
                     /\ PathExists(GetProp(cur, Head(parts)), Tail(parts))
           IN /\ ~probe.out.thrown
              /\ probe.out.errors =
                    IF PathExists(probe.response.data, SplitDots(rule.target.v))
                    THEN <<>> ELSE <<rule.message>>

GenOutcomes ==
    {[callThrows |-> FALSE, reply |-> r] : r \in Replies}
    \cup {[callThrows |-> TRUE,
           reply |-> [fenced |-> TRUE, commentary |-> FALSE, wellFormed |-> FALSE,
                      body |-> <<>>]]}

GenInputs ==
    {[fn |-> "generateTestsInput", tools |-> ts, numTestsPerTool |-> n, outcomes |-> os] :
        ts \in ToolLists \ {<<>>}, n \in 1..MaxReplyLen,
        os \in SeqsUpTo(GenOutcomes, MaxTools)}

ToolGenInputs ==
    {[fn |-> "toolTestsInput", tool |-> t, numTests |-> Len(us), units |-> us, uuids |-> k] :
        t \in 1..MaxTools, us \in SeqsUpTo(UnitOutcomes, MaxUnits) \ {<<>>},
        k \in {0, MaxUnits}}

ServerNames == {"filesystem", "github", "memory"}

\* a configuration file: an object has each key once
SelectInputs ==
    {[fn |-> "selectInput", servers |-> sv, mcpServers |-> ms] :
        sv \in {[present |-> FALSE, v |-> <<>>]}
                \cup {[present |-> TRUE, v |-> q] : q \in SeqsUpTo(ServerNames, NumServers)},
        ms \in {[present |-> FALSE, v |-> <<>>]}
                \cup {[present |-> TRUE, v |-> q] :
                         q \in {r \in SeqsUpTo(ServerNames, NumServers) :
                                   \A i, j \in 1..Len(r) : r[i] = r[j] => i = j}}}

ApiGenInputs ==
    {[fn |-> "testCasesInput", callThrows |-> ct, reply |-> r] :
        ct \in BOOLEAN, r \in ApiReplies}

InitGen ==
    /\ variant = "sdk"
    /\ client = FreshClient
    /\ last = NoCall
    /\ \/ \E inp \in GenInputs : Len(inp.outcomes) = Len(inp.tools) /\ probe = inp
       \/ probe \in ToolGenInputs
       \/ probe \in ApiGenInputs
       \/ probe \in SelectInputs
    /\ srv = 1
    /\ opc = "loop"
    /\ clientRef = FALSE
    /\ cpc = "idle"
    /\ tools = <<>>
    /\ toolIdx = 0
    /\ testCases = <<>>
    /\ results = <<>>
    /\ testIdx = 0
    /\ abandoned = {}
    /\ pending = FALSE
    /\ disc = 0
    /\ campaign = "none"
    /\ reported = FALSE
    /\ reportFile = {}

\* testGenerator.generateTests(tools, config), src/src/test-generator
GenerateTestsCall ==
    /\ probe.fn = "generateTestsInput"
    /\ probe' = [fn |-> "generateTests", tools |-> probe.tools,
                 numTestsPerTool |-> probe.numTestsPerTool, outcomes |-> probe.outcomes,
                 out |-> generateTests(probe.tools, probe.numTestsPerTool, probe.outcomes)]
    /\ UNCHANGED <<variant, client, last, orchVars>>

\* generator.generateTests(tool, numTests), src/src/generator
GenerateToolTestsCall ==
    /\ probe.fn = "toolTestsInput"
    /\ probe' = [fn |-> "generateTestsForTool", tool |-> probe.tool,
                 numTests |-> probe.numTests, units |-> probe.units,
                 out |-> generateTestsForTool(probe.tool, probe.numTests, probe.units,
                                              probe.uuids)]
    /\ UNCHANGED <<variant, client, last, orchVars>>

\* this.generateTestCases(endpoint), src/src/api-tester
GenerateTestCasesCall ==
    /\ probe.fn = "testCasesInput"
    /\ probe' = [fn |-> "generateTestCases", callThrows |-> probe.callThrows,
                 reply |-> probe.reply,
                 out |-> generateTestCases(probe.callThrows, probe.reply)]
    /\ UNCHANGED <<variant, client, last, orchVars>>

\* runTests up to the loop over testConfig.servers
SelectServersCall ==
    /\ probe.fn = "selectInput"
    /\ probe' = [fn |-> "selectServers", servers |-> probe.servers,
                 mcpServers |-> probe.mcpServers,
                 out |-> selectServers(probe.servers, probe.mcpServers)]
    /\ UNCHANGED <<variant, client, last, orchVars>>

NextGen ==
    \/ GenerateTestsCall
    \/ GenerateToolTestsCall
    \/ GenerateTestCasesCall
    \/ SelectServersCall

SpecGen == InitGen /\ [][NextGen]_vars

(***************************************************************************)
(* Properties of the generators                                             *)
(***************************************************************************)
\* the i-th tool of a generateTests call got no usable reply: the completion
\* call threw, or parseResponse gave up on the reply
GenFailed(i) ==
    \/ probe.outcomes[i].callThrows
    \/ ~JsonParses(probe.outcomes[i].reply)
    \/ \E k \in 1..Len(probe.outcomes[i].reply.body) :
          "expectedOutcome" \notin DOMAIN probe.outcomes[i].reply.body[k]

\* the test cases of `cases` that carry the name of tool t, in order
CasesOf(cases, t) ==
    SelectSeq(cases, LAMBDA tc : tc.toolName = t)

\* C24: generateTests over a tool list always returns; a tool whose completion
\* call threw or whose reply could not be parsed has no test case in the
\* returned list, and every other tool has one test case per entry of its reply
C24_ToolFailureIsContained ==
    probe.fn = "generateTests"
        => \A i \in 1..Len(probe.tools) :
              Len(CasesOf(probe.out, probe.tools[i])) =
                 IF GenFailed(i) THEN 0 ELSE Len(probe.outcomes[i].reply.body)

C24_Witness ==
    /\ probe.fn = "generateTests"
    /\ Len(probe.tools) = MaxTools
    /\ ~GenFailed(1)
    /\ GenFailed(MaxTools)
    /\ probe.outcomes[MaxTools].callThrows
    /\ Len(probe.out) = MaxReplyLen
    /\ \A k \in 1..Len(probe.out) : probe.out[k].toolName = probe.tools[1]

\* C25: the per-tool generateTests(tool, numTests) returns even when a model
\* call of one unit fails, and then returns one test case for each unit none
\* of whose calls failed
C25_UnitFailureIsContained ==
    probe.fn = "generateTestsForTool"
        => /\ ~probe.out.thrown
           /\ Len(probe.out.testCases) =
                 Cardinality({i \in 1..probe.numTests : probe.units[i] = "ok"})

\* C26: whichever generator made them, the test cases for one tool number at
\* most the configured count (exactly the count when the per-tool generator
\* had no failing unit), each names its tool, and each has an id that no other
\* test case of the call has
C26_CountNameAndId ==
    /\ probe.fn = "generateTests"
          => /\ \A i \in 1..Len(probe.tools) :
                   Len(CasesOf(probe.out, probe.tools[i])) <= probe.numTestsPerTool
             /\ \A k \in 1..Len(probe.out) :
                   /\ \E i \in 1..Len(probe.tools) : probe.out[k].toolName = probe.tools[i]
                   /\ "id" \in DOMAIN probe.out[k]
                   /\ \A m \in 1..Len(probe.out) :
                         ("id" \in DOMAIN probe.out[m] /\ m # k)
                            => probe.out[m].id # probe.out[k].id
    /\ (probe.fn = "generateTestsForTool" /\ ~probe.out.thrown)
          => /\ Len(probe.out.testCases) = probe.numTests
             /\ \A k \in 1..Len(probe.out.testCases) :
                   /\ probe.out.testCases[k].toolName = probe.tool
                   /\ \A m \in 1..Len(probe.out.testCases) :
                         m # k => probe.out.testCases[m].id # probe.out.testCases[k].id

\* C27: a reply that cannot be parsed yields no test case at all, from
\* generateTests for that tool and from generateTestCases alike
C27_UnparseableYieldsNothing ==
    /\ probe.fn = "generateTests"
          => \A i \in 1..Len(probe.tools) :
                (~probe.outcomes[i].callThrows /\ ~JsonParses(probe.outcomes[i].reply))
                   => CasesOf(probe.out, probe.tools[i]) = <<>>
    /\ (/\ probe.fn = "generateTestCases"
        /\ ~probe.callThrows
        /\ ~(probe.reply.hasText /\ probe.reply.hasArray /\ probe.reply.wellFormed))
          => probe.out.testCases = <<>>

\* C28: the list generateTests returns has the tools in the order they were
\* given, and for each tool the test cases in the order of the entries of its
\* reply
C28_OrderedByToolThenEntry ==
    probe.fn = "generateTests"
        => /\ \A k, m \in 1..Len(probe.out) :
                 k < m => probe.out[k].toolName <= probe.out[m].toolName
           /\ \A i \in 1..Len(probe.tools) :
                 ~GenFailed(i)
                    => CasesOf(probe.out, probe.tools[i]) =
                          [k \in 1..Len(probe.outcomes[i].reply.body) |->
                              MapEntry(probe.outcomes[i].reply.body[k], probe.tools[i])]

C28_Witness ==
    /\ probe.fn = "generateTests"
    /\ Len(probe.tools) = MaxTools
    /\ \A i \in 1..MaxTools : ~GenFailed(i)
    /\ Len(probe.outcomes[1].reply.body) = MaxReplyLen
    /\ probe.outcomes[1].reply.body[1] # probe.outcomes[1].reply.body[MaxReplyLen]
    /\ Len(probe.outcomes[MaxTools].reply.body) >= 1
    /\ Len(probe.out) > MaxReplyLen

(***************************************************************************)
(* Properties of the run as a whole                                         *)
(***************************************************************************)
\* C29: when the loop goes on to the next server, and so calls connect on a
\* new client, the client of the server just handled is neither connected nor
\* connecting: its disconnect has returned, it holds no session, server,
\* library client, child process or socket, and no step of its connect is
\* still to come
C29_OneConnectionAtATime ==
    (opc = "iterEnd" /\ ~pending /\ srv < NumServers)
        => /\ ~clientRef
           /\ disc >= 1
           /\ cpc \in {"idle", "resolved", "rejected"}
           /\ ~client.session /\ ~client.server /\ ~client.client
           /\ ~client.serverProcess /\ ~client.socket
           /\ ~client.procAlive /\ ~client.sockOpen

\* The steps of runTests that need no answer from a server or from the
\* generative model: synchronous code, continuations of promises that have
\* settled, the two setTimeout callbacks, and the writing of the report
OrchLocal ==
    \/ StartServer
    \/ OrchConnected
    \/ OrchConnectFailed
    \/ OrchConnectTimeout
    \/ ListTools
    \/ ExecStart
    \/ ToolTimeout
    \/ Report
    \/ LoopNext

\* The event loop runs every ready continuation and fires every timer; a
\* server or a model may leave a request unanswered for ever, so the steps
\* that stand for their answers (ConnectStep, ConnectCatchStep, GenTool,
\* ToolSettle, AbandonedSettle) are not forced.  The close() calls of the
\* disconnect in the inner finally are taken to settle.
SpecFair == Init /\ [][Next]_vars /\ WF_vars(OrchLocal) /\ WF_vars(FinallyStep)

\* C30: with timers that fire, every run comes to its end (the loop is over or
\* the process has exited) after having called disconnect, even when a server
\* or the generative model leaves requests unanswered
C30_RunTerminates ==
    <>(opc \in {"done", "exited"})

\* C31: the loop visits the entries of the configured servers array, in its
\* order, when that array is there and not empty, and otherwise every key of
\* mcpServers; when neither gives a server the run exits before the loop, and
\* so before any client is created
C31_ServersSelected ==
    probe.fn = "selectServers"
        => LET named == probe.servers.present /\ probe.servers.v # <<>>
               keyed == probe.mcpServers.present /\ probe.mcpServers.v # <<>>
           IN /\ named => (~probe.out.exited /\ probe.out.servers = probe.servers.v)
              /\ (~named /\ keyed)
                    => /\ ~probe.out.exited
                       /\ Len(probe.out.servers) = Len(probe.mcpServers.v)
                       /\ \A i \in 1..Len(probe.mcpServers.v) :
                             \E j \in 1..Len(probe.out.servers) :
                                probe.out.servers[j] = probe.mcpServers.v[i]
              /\ (~named /\ ~keyed) => (probe.out.exited /\ probe.out.servers = <<>>)

C31_Witness ==
    /\ probe.fn = "selectServers"
    /\ probe.servers.present
    /\ Len(probe.servers.v) = NumServers
    /\ probe.mcpServers.present
    /\ Len(probe.mcpServers.v) = NumServers
    /\ probe.servers.v # probe.mcpServers.v
    /\ probe.out.servers = probe.servers.v

\* C32: a success response that was expected, validated against a test case
\* without any rule, is valid and has no error, whatever its data is
C32_NoRulesIsValid ==
    (/\ probe.fn = "validateResponse"
     /\ probe.testCase.expectedOutcome.status = "success"
     /\ probe.response.status = "success"
     /\ probe.testCase.validationRules = <<>>
     /\ probe.testCase.expectedOutcome.validationRules = <<>>)
        => /\ ~probe.out.thrown
           /\ probe.out.valid
           /\ probe.out.errors = <<>>

\* C33: when an invocation that lost the race against its timer settles, the
\* list of results stays as it is, and each test case whose invocation is
\* still abandoned has the failing timeout result at its place
C33_LateSettleChangesNoResult ==
    [][AbandonedSettle
          => /\ results' = results
             /\ \A i \in abandoned :
                   /\ i <= Len(results)
                   /\ results[i].testCase = testCases[i]
                   /\ ~results[i].passed
                   /\ results[i].validationErrors = <<TimeoutMessage>>]_vars

\* an abandoned invocation has settled, and a test case after it has a result
C33_Witness ==
    /\ \E i \in 1..Len(results) :
          /\ results[i].validationErrors = <<TimeoutMessage>>
          /\ i \notin abandoned
          /\ i < Len(results)

\* C34: the invocations sent to the server of the current campaign and not
\* yet settled (the one runTests waits for, and those it gave up waiting for)
\* are never more than one, and there is none once the inner finally has
\* called disconnect
C34_OneOutstandingInvocation ==
    /\ Cardinality(abandoned \cup (IF opc = "awaitTool" THEN {testIdx} ELSE {})) <= 1
    /\ opc \in {"finCloseSession", "finCloseServer", "iterEnd"} => abandoned = {}

\* C35: when the campaign ended because connect rejected or lost the race
\* against the connection timer, disconnect has been called exactly once on
\* the client by the end of the iteration, the call in connect's catch block
\* and the call in the inner finally both counted
C35_DisconnectOnceAfterFailedConnect ==
    (opc = "iterEnd" /\ campaign \in {"connectFailed", "connectTimeout"})
        => disc = 1

\* C36: when the first connect() on an instance has thrown, the instance is
\* as it was when constructed: no session, server or library client handle,
\* no child process (reference or running process) and no socket (reference
\* or open socket)
C36_FailedConnectLeavesNothing ==
    (last.op = "connect" /\ last.threw /\ last.prevOp = "none")
        => /\ ~client.session /\ ~client.server /\ ~client.client
           /\ ~client.serverProcess /\ ~client.procAlive
           /\ ~client.socket /\ ~client.sockOpen

\* C37: no step of a run takes a server's results out of the report file:
\* what the file holds of the servers tested earlier is still there after the
\* report of a later server has been written
C37_ReportKeepsEarlierServers ==
    [][reportFile \subseteq reportFile']_vars

(***************************************************************************)
(* runTests of the single-server command-line runner (the ConfigLoader      *)
(* snapshot): one client, the same steps as one iteration of the loop       *)
(* above, and one try/catch/finally around all of them.  The catch block    *)
(* ends with process.exit(1).                                               *)
(***************************************************************************)
InitCli ==
    /\ variant = "cfg"
    /\ srv = 1
    /\ opc = "loop"
    /\ client = FreshClient
    /\ clientRef = FALSE
    /\ cpc = "idle"
    /\ tools = <<>>
    /\ toolIdx = 0
    /\ testCases = <<>>
    /\ results = <<>>
    /\ testIdx = 0
    /\ abandoned = {}
    /\ pending = FALSE
    /\ disc = 0
    /\ campaign = "none"
    /\ reported = FALSE
    /\ reportFile = {}
    /\ last = NoCall
    /\ probe = NoProbe

\* Control leaves the try block: an exception runs the catch block, whose
\* process.exit(1) ends the process there and then; a return or the end of
\* the block runs the finally block
CliEnter(exc, how) ==
    IF exc
    THEN /\ opc' = "exited"
         /\ pending' = TRUE
         /\ campaign' = how
         /\ UNCHANGED <<client, clientRef, disc>>
    ELSE EnterFinally(FALSE, how)

CliConnectFailed ==
    /\ opc = "awaitConnect"
    /\ cpc = "rejected"
    /\ CliEnter(TRUE, "connectFailed")
    /\ UNCHANGED <<probe, last, reportFile, variant, srv, cpc, tools, toolIdx, testCases,
                   results, testIdx, abandoned, reported>>

CliConnectTimeout ==
    /\ opc = "awaitConnect"
    /\ cpc \notin {"resolved", "rejected"}
    /\ CliEnter(TRUE, "connectTimeout")
    /\ UNCHANGED <<probe, last, reportFile, variant, srv, cpc, tools, toolIdx, testCases,
                   results, testIdx, abandoned, reported>>

\* const tools = client.listTools(); if (tools.length === 0) return
CliListTools ==
    /\ opc = "listTools"
    /\ \E o \in ListToolsOutcomes(variant, client) :
          IF o.threw
          THEN /\ CliEnter(TRUE, "listToolsThrew")
               /\ UNCHANGED <<tools, toolIdx>>
          ELSE IF o.tools = <<>>
          THEN /\ CliEnter(FALSE, "empty")
               /\ UNCHANGED <<tools, toolIdx>>
          ELSE /\ tools' = o.tools
               /\ toolIdx' = 1
               /\ opc' = "generate"
               /\ UNCHANGED <<client, clientRef, pending, disc, campaign>>
    /\ UNCHANGED <<probe, last, reportFile, variant, srv, cpc, testCases, results, testIdx,
                   abandoned, reported>>

CliReport ==
    /\ opc = "report"
    /\ reported' = TRUE
    /\ \E ok \in BOOLEAN :
          /\ CliEnter(~ok, IF ok THEN "completed" ELSE "reportFailed")
          /\ reportFile' = IF ok THEN {srv} ELSE reportFile
    /\ UNCHANGED <<probe, last, variant, srv, cpc, tools, toolIdx, testCases, results, testIdx,
                   abandoned>>

\* the finally block is over and runTests returns
CliReturn ==
    /\ opc = "iterEnd"
    /\ opc' = "done"
    /\ UNCHANGED <<probe, last, reportFile, variant, srv, client, clientRef, cpc, tools, toolIdx,
                   testCases, results, testIdx, abandoned, pending, disc, campaign, reported>>

\* connect() of this client has no catch block and its disconnect() awaits
\* nothing, so ConnectCatchStep and FinallyStep have no step to make here
NextCli ==
    \/ StartServer
    \/ ConnectStep
    \/ OrchConnected
    \/ CliConnectFailed
    \/ CliConnectTimeout
    \/ CliListTools
    \/ GenTool
    \/ ExecStart
    \/ ToolSettle
    \/ ToolTimeout
    \/ AbandonedSettle
    \/ CliReport
    \/ CliReturn

SpecCli == InitCli /\ [][NextCli]_vars

\* C38: when the process of the single-server runner has ended after the
\* client was created (runTests returned, or process.exit was called),
\* disconnect() has been invoked on the client
C38_CliAlwaysDisconnects ==
    (opc \in {"done", "exited"} /\ campaign # "none") => disc >= 1

\* C39: every result in the list has passed = TRUE exactly when its list of
\* validation errors is empty, and a result built by the catch block of a test
\* case (thrown error or timeout) has passed = FALSE and at least one error
C39_PassedIffNoErrors ==
    \A i \in 1..Len(results) :
       /\ results[i].passed <=> results[i].validationErrors = <<>>
       /\ IsCaughtFailure(results[i])
             => (~results[i].passed /\ results[i].validationErrors # <<>>)

C39_Witness ==
    \E i, j \in 1..Len(results) :
       /\ results[i].passed
       /\ results[i].validationErrors = <<>>
       /\ IsCaughtFailure(results[j])
       /\ results[j].validationErrors = <<TimeoutMessage>>

====
